---- MODULE Spec2Model ----
(***************************************************************************)
(* Dialogue branching tree of Narratium.ai: the DialogueTree data model,   *)
(* the current-path walk and layout of DialogueTreeModal.fetchDialogueData, *)
(* and the modal's jump (switch branch) and edit handlers.                  *)
(*                                                                         *)
(* Texts are sequences of one-character strings, so that length and         *)
(* truncation are computed as the code computes them.  The empty sequence   *)
(* is the falsy text ("" / undefined).                                      *)
(***************************************************************************)
EXTENDS Integers, Sequences, FiniteSets, TLC

VARIABLES
    \* ---- backend: the DialogueTree behind getCharacterDialogue / switchDialogueBranch / editDialaogueNodeContent
    tree,               \* [nodes, current_node_id, updated_at]
    okResponses,        \* number of success responses the backend produced for switch/edit requests
    \* ---- DialogueTreeModal state (useState / props)
    isOpen,             \* prop isOpen
    dataLoaded,         \* useState dataLoaded
    nodes,              \* useNodesState: the displayed nodes
    edges,              \* useEdgesState: the displayed edges
    selectedNode,       \* useState selectedNode: a displayed node or NoNode
    isEditModalOpen,    \* useState isEditModalOpen
    editContent,        \* useState editContent
    isSaving,           \* useState isSaving
    isJumpingToNode,    \* useState isJumpingToNode
    \* ---- DialogueNodeComponent state, per mounted node component
    isJumping,          \* set of node ids whose component has isJumping = true
    showRootTooltip,    \* the root component's showRootTooltip; while it is set a hide timer is pending
    \* ---- requests in flight and timers
    pendingLoads,       \* getCharacterDialogue calls awaiting their continuation
    pendingJumps,       \* switchDialogueBranch calls awaiting their continuation
    pendingEdits,       \* editDialaogueNodeContent calls awaiting their continuation
    closeTimers,        \* setTimeout(onClose, 300) timers not yet fired
    hung,               \* the event loop is stuck in a walk that never ends
    \* ---- how many more requests the user may start (the bounds of a behaviour)
    loadsLeft, jumpsLeft, editsLeft,
    \* ---- observations (calls made to collaborators)
    dialogueEditCalls,  \* number of calls of onDialogueEdit
    \* ---- the current-path walk, run one loop iteration at a time (WalkSpec)
    wNodes, wCurrent, tempNodeId, currentPathNodeIds, wpc, wIterations

modalVars == <<isOpen, dataLoaded, nodes, edges, selectedNode, isEditModalOpen, editContent,
               isSaving, isJumpingToNode, isJumping, showRootTooltip, pendingLoads, pendingJumps,
               pendingEdits, closeTimers, hung, loadsLeft, jumpsLeft,
               editsLeft, dialogueEditCalls>>
backendVars == <<tree, okResponses>>
walkVars == <<wNodes, wCurrent, tempNodeId, currentPathNodeIds, wpc, wIterations>>
vars == <<backendVars, modalVars, walkVars>>

-----------------------------------------------------------------------------
(* Bounds of the model *)

\* loads (getCharacterDialogue calls) started in one behaviour
MaxLoads == 2
\* jumps (switchDialogueBranch calls) started in one behaviour
MaxJumps == 2
\* edits (editDialaogueNodeContent calls) started in one behaviour
MaxEdits == 1
\* loads started in one behaviour of EditSpec
MaxEditLoads == 1
\* jumps and edits started in one behaviour of Spec, where they interleave
MaxSessionJumps == 1
MaxSessionEdits == 1
\* loop iterations of the stepwise walk before the model stops following it
MaxWalk == 5
\* node lists of the stepwise walk have at most this many nodes
MaxWalkNodes == 2
\* trees handed to the layout have at most this many nodes
MaxLayoutNodes == 3
\* the chains laid out on the grid have at most this many nodes
MaxGridNodes == 12
\* the chains whose texts vary, for the labels, have at most this many nodes
MaxLabelNodes == 3

-----------------------------------------------------------------------------
(* Data model: DialogueNode, DialogueTree *)

Root == "root"
\* an id no node of any modelled tree has (a dangling reference)
Missing == "X"
NodeIds == {Root, "A", "B"}

NoText == <<>>
Foo == <<"f", "o", "o">>
Bar == <<"b", "a", "r">>
Summary == <<"S", "1">>

\* new DialogueNode(node_id, parent_node_id, user_input, assistant_response, full_response, parsed_content)
\* parsed_content is kept as its compressedContent; NoText when parsed_content is absent.
DialogueNode(node_id, parent_node_id, assistant_response, compressedContent) ==
    [node_id |-> node_id, parent_node_id |-> parent_node_id,
     assistant_response |-> assistant_response,
     parsed_content |-> [compressedContent |-> compressedContent]]

\* new DialogueTree(id, character_id, nodes, current_node_id, created_at, updated_at)
DialogueTree(treeNodes, current_node_id, updated_at) ==
    [nodes |-> treeNodes, current_node_id |-> current_node_id, updated_at |-> updated_at]

\* the parent_node_id of the root node: the root has no ancestor
NoParent == ""

RootNode == DialogueNode(Root, NoParent, NoText, NoText)

\* allNodes.find(n => n.node_id === id): index of the first match, 0 when there is none
RECURSIVE FindFrom(_, _, _)
FindFrom(allNodes, id, i) ==
    IF i > Len(allNodes) THEN 0
    ELSE IF allNodes[i].node_id = id THEN i
    ELSE FindFrom(allNodes, id, i + 1)

FindIndex(allNodes, id) == FindFrom(allNodes, id, 1)

IdsOf(allNodes) == {allNodes[i].node_id : i \in 1..Len(allNodes)}

-----------------------------------------------------------------------------
(* The current-path walk of fetchDialogueData, as a function.               *)
(* The loop runs until tempNodeId is "root" or the lookup fails.  Every     *)
(* iteration that goes on has found tempNodeId among the nodes, so a walk   *)
(* of more than Len(allNodes) + 1 iterations has met an id twice and never  *)
(* ends: diverges is TRUE exactly for those walks.                          *)

\* the walk with unshift in place of push: the path comes out root-first
RECURSIVE WalkFromReversed(_, _, _, _)
WalkFromReversed(allNodes, temp, path, fuel) ==
    IF temp = Root THEN [path |-> path, diverges |-> FALSE]
    ELSE IF fuel = 0 THEN [path |-> path, diverges |-> TRUE]
    ELSE LET pushed == <<temp>> \o path
             idx == FindIndex(allNodes, temp)
         IN  IF idx = 0 THEN [path |-> pushed, diverges |-> FALSE]
             ELSE WalkFromReversed(allNodes, allNodes[idx].parent_node_id, pushed, fuel - 1)

RECURSIVE WalkFrom(_, _, _, _)
WalkFrom(allNodes, temp, path, fuel) ==
    IF temp = Root THEN [path |-> path, diverges |-> FALSE]
    ELSE IF fuel = 0 THEN [path |-> path, diverges |-> TRUE]
    ELSE LET pushed == Append(path, temp)
             idx == FindIndex(allNodes, temp)
         IN  IF idx = 0 THEN [path |-> pushed, diverges |-> FALSE]
             ELSE WalkFrom(allNodes, allNodes[idx].parent_node_id, pushed, fuel - 1)

ComputeCurrentPath(allNodes, currentNodeId) ==
    WalkFrom(allNodes, currentNodeId, <<>>, Len(allNodes) + 1)

-----------------------------------------------------------------------------
(* The current-path walk, one loop iteration per step (WalkSpec).           *)
(* fetchDialogueData runs it on whatever node list the response carries,    *)
(* after the allNodes.length === 0 early return.                            *)

WalkParents == NodeIds \cup {Missing}

WalkNodeLists ==
    UNION {[1..n -> {DialogueNode(i, p, NoText, NoText) : i \in NodeIds, p \in WalkParents}]
           : n \in 1..MaxWalkNodes}

\* const currentPathNodeIds = []; let tempNodeId = currentNodeId;
WalkInit ==
    /\ wNodes \in WalkNodeLists
    /\ wCurrent \in WalkParents
    /\ tempNodeId = wCurrent
    /\ currentPathNodeIds = <<>>
    /\ wpc = "loop"
    /\ wIterations = 0

\* one iteration of: while (tempNodeId !== "root") { push; find; if (!node) break; tempNodeId = node.parent_node_id; }
WalkIterate ==
    /\ wpc = "loop"
    /\ tempNodeId # Root
    /\ wIterations < MaxWalk
    /\ currentPathNodeIds' = Append(currentPathNodeIds, tempNodeId)
    /\ wIterations' = wIterations + 1
    /\ LET idx == FindIndex(wNodes, tempNodeId)
       IN  IF idx = 0
           THEN /\ wpc' = "done"
                /\ UNCHANGED tempNodeId
           ELSE /\ tempNodeId' = wNodes[idx].parent_node_id
                /\ UNCHANGED wpc
    /\ UNCHANGED <<wNodes, wCurrent>>

\* the loop condition fails: tempNodeId === "root"
WalkExit ==
    /\ wpc = "loop"
    /\ tempNodeId = Root
    /\ wpc' = "done"
    /\ UNCHANGED <<wNodes, wCurrent, tempNodeId, currentPathNodeIds, wIterations>>


-----------------------------------------------------------------------------
(* Layout: the visual nodes and edges fetchDialogueData builds              *)

\* the label's response prefix is cut at this many characters
MaxLabelChars == 30

Ellipsis == <<".", ".", ".">>

\* const columns = nodeCount <= 3 ? 1 : Math.max(1, Math.round(Math.sqrt(nodeCount)))
\* Math.round(Math.sqrt(n)) is the k with k*k - k < n <= k*k + k.
Columns(nodeCount) ==
    IF nodeCount <= 3 THEN 1
    ELSE LET k == CHOOSE c \in 1..nodeCount : c * c - c < nodeCount /\ nodeCount <= c * c + c
         IN  IF k > 1 THEN k ELSE 1

\* Math.ceil(allNodes.length / columns)
Rows(nodeCount) == (nodeCount + Columns(nodeCount) - 1) \div Columns(nodeCount)

\* allNodes.filter(n => n.parent_node_id === "root")
RootChildren(allNodes) == SelectSeq(allNodes, LAMBDA n : n.parent_node_id = Root)

\* the label derivation with >= in place of > in the length test
NodeLabelEllipsisAtLimit(allNodes, node) ==
    IF node.node_id = Root THEN <<"root">>
    ELSE IF node.parent_node_id = Root
    THEN LET rootChildren == RootChildren(allNodes)
             rootChildIndex == FindIndex(rootChildren, node.node_id) - 1
             rootChildrenCount == Len(rootChildren)
         IN  <<"startingPoint", ToString(rootChildrenCount - rootChildIndex)>>
             \o (IF rootChildrenCount > 1 THEN <<"/", ToString(rootChildrenCount)>> ELSE <<>>)
    ELSE IF node.assistant_response # NoText
    THEN IF node.parsed_content.compressedContent # NoText
         THEN node.parsed_content.compressedContent
         ELSE IF Len(node.assistant_response) >= MaxLabelChars
              THEN SubSeq(node.assistant_response, 1, MaxLabelChars) \o Ellipsis
              ELSE node.assistant_response
    ELSE <<"systemMessage">>

\* the label of one node (step 5 of the layout)
NodeLabel(allNodes, node) ==
    IF node.node_id = Root THEN <<"root">>
    ELSE IF node.parent_node_id = Root
    THEN LET rootChildren == RootChildren(allNodes)
             rootChildIndex == FindIndex(rootChildren, node.node_id) - 1
             rootChildrenCount == Len(rootChildren)
         IN  <<"startingPoint", ToString(rootChildrenCount - rootChildIndex)>>
             \o (IF rootChildrenCount > 1 THEN <<"/", ToString(rootChildrenCount)>> ELSE <<>>)
    ELSE IF node.assistant_response # NoText
    THEN IF node.parsed_content.compressedContent # NoText
         THEN node.parsed_content.compressedContent
         ELSE IF Len(node.assistant_response) > MaxLabelChars
              THEN SubSeq(node.assistant_response, 1, MaxLabelChars) \o Ellipsis
              ELSE node.assistant_response
    ELSE <<"systemMessage">>

\* the node construction marking only the current node itself as on the current path
VisualNodeCurrentOnly(allNodes, path, index, capturedIsJumpingToNode) ==
    LET node == allNodes[index + 1]
        columns == Columns(Len(allNodes))
    IN  [id |-> node.node_id,
         label |-> NodeLabel(allNodes, node),
         fullContent |-> node.assistant_response,
         assistantResponse |-> node.assistant_response,
         parsedContent |-> node.parsed_content,
         isCurrentPath |-> Len(path) > 0 /\ path[1] = node.node_id,
         onJumpClick |-> [isJumpingToNode |-> capturedIsJumpingToNode],
         col |-> index % columns,
         row |-> index \div columns]

\* the grid placement with col and row computed the other way round
VisualNodeSwappedCell(allNodes, path, index, capturedIsJumpingToNode) ==
    LET node == allNodes[index + 1]
        columns == Columns(Len(allNodes))
    IN  [id |-> node.node_id,
         label |-> NodeLabel(allNodes, node),
         fullContent |-> node.assistant_response,
         assistantResponse |-> node.assistant_response,
         parsedContent |-> node.parsed_content,
         isCurrentPath |-> \E k \in 1..Len(path) : path[k] = node.node_id,
         onJumpClick |-> [isJumpingToNode |-> capturedIsJumpingToNode],
         col |-> index \div columns,
         row |-> index % columns]

\* newNodes.push({id, data: {...}, position}) for the node at 0-based index
\* onJumpClick is the closure (id) => handleJumpToNode(id): it calls the handleJumpToNode of the
\* render that started the load, so it reads that render's isJumpingToNode.
VisualNode(allNodes, path, index, capturedIsJumpingToNode) ==
    LET node == allNodes[index + 1]
        columns == Columns(Len(allNodes))
    IN  [id |-> node.node_id,
         label |-> NodeLabel(allNodes, node),
         fullContent |-> node.assistant_response,
         assistantResponse |-> node.assistant_response,
         parsedContent |-> node.parsed_content,
         isCurrentPath |-> \E k \in 1..Len(path) : path[k] = node.node_id,
         onJumpClick |-> [isJumpingToNode |-> capturedIsJumpingToNode],
         col |-> index % columns,
         row |-> index \div columns]

\* DialogueNodeComponent: the colour scheme of a node, by id and data.isCurrentPath
NodeCategory(node) ==
    IF node.id = Root THEN "root"
    ELSE IF node.isCurrentPath THEN "on-current-path"
    ELSE "other"

LayoutNodes(allNodes, path, capturedIsJumpingToNode) ==
    [i \in 1..Len(allNodes) |-> VisualNode(allNodes, path, i - 1, capturedIsJumpingToNode)]

\* the edge classification with || in place of && in isCurrentPathEdge
VisualEdgeEitherEnd(path, node) ==
    LET sourceId == node.parent_node_id
        targetId == node.node_id
        isCurrentPathEdge == \/ \E k \in 1..Len(path) : path[k] = sourceId
                             \/ \E k \in 1..Len(path) : path[k] = targetId
        isRootSource == sourceId = Root
    IN  [source |-> sourceId, target |-> targetId,
         isCurrentPathEdge |-> isCurrentPathEdge,
         className |-> IF isRootSource THEN "root-source"
                       ELSE IF isCurrentPathEdge THEN "current-path" ELSE "other-path",
         strokeWidth |-> IF isCurrentPathEdge \/ isRootSource THEN 3 ELSE 2]

\* the edge built for one node, when both ends are in nodeMap
VisualEdge(path, node) ==
    LET sourceId == node.parent_node_id
        targetId == node.node_id
        isCurrentPathEdge == /\ \E k \in 1..Len(path) : path[k] = sourceId
                             /\ \E k \in 1..Len(path) : path[k] = targetId
        isRootSource == sourceId = Root
    IN  [source |-> sourceId, target |-> targetId,
         isCurrentPathEdge |-> isCurrentPathEdge,
         className |-> IF isRootSource THEN "root-source"
                       ELSE IF isCurrentPathEdge THEN "current-path" ELSE "other-path",
         strokeWidth |-> IF isCurrentPathEdge \/ isRootSource THEN 3 ELSE 2]

\* allNodes.forEach(node => { if (node.node_id && node.node_id !== "root") { if (nodeMap[sourceId] && nodeMap[targetId]) newEdges.push(...) } })
\* the edge loop without the nodeMap[sourceId] && nodeMap[targetId] test
RECURSIVE EdgesFromUnchecked(_, _, _)
EdgesFromUnchecked(allNodes, path, i) ==
    IF i > Len(allNodes) THEN <<>>
    ELSE LET node == allNodes[i]
             emitted == node.node_id # Root
         IN  (IF emitted THEN <<VisualEdge(path, node)>> ELSE <<>>)
                 \o EdgesFromUnchecked(allNodes, path, i + 1)

RECURSIVE EdgesFrom(_, _, _)
EdgesFrom(allNodes, path, i) ==
    IF i > Len(allNodes) THEN <<>>
    ELSE LET node == allNodes[i]
             emitted == /\ node.node_id # Root
                        /\ node.parent_node_id \in IdsOf(allNodes)
         IN  (IF emitted THEN <<VisualEdge(path, node)>> ELSE <<>>) \o EdgesFrom(allNodes, path, i + 1)

LayoutEdges(allNodes, path) == EdgesFrom(allNodes, path, 1)


-----------------------------------------------------------------------------
(* The backend behind the three imported calls.  Its code is not part of    *)
(* the sources at hand: it is modelled from the specification's Branch      *)
(* Navigator (4.1), Content Editor (4.2) and error policy (7).              *)

NoTree == DialogueTree(<<>>, Root, 0)

\* new DialogueTree(id, character_id, nodes = [], current_node_id = "root", ...): a parameter
\* the caller leaves out takes its default value
NoArguments == [a \in {} |-> NoText]

NewDialogueTree(arguments) ==
    DialogueTree(IF "nodes" \in DOMAIN arguments THEN arguments.nodes ELSE <<>>,
                 IF "current_node_id" \in DOMAIN arguments THEN arguments.current_node_id ELSE Root,
                 0)

ScenarioTree ==
    DialogueTree(<<RootNode, DialogueNode("A", Root, Foo, NoText), DialogueNode("B", "A", Foo, Summary)>>, "B", 0)

\* root -> A -> B where no node has a summary (parsed_content is optional)
UnsummarizedTree ==
    DialogueTree(<<RootNode, DialogueNode("A", Root, Foo, NoText), DialogueNode("B", "A", Foo, NoText)>>, "B", 0)

TwoStartsTree ==
    DialogueTree(<<RootNode, DialogueNode("A", Root, Foo, NoText), DialogueNode("B", Root, Foo, NoText)>>, "A", 0)

\* Lifecycle: a tree is created with a single root node and current_node_id = "root"
FreshTree == DialogueTree(<<RootNode>>, Root, 0)

InitTrees == {ScenarioTree, TwoStartsTree, FreshTree}

\* switchBranch(tree, targetNodeId): [success, error, tree]
SwitchBranch(t, targetNodeId) ==
    IF targetNodeId = Root
    THEN [success |-> FALSE, error |-> "InvalidTarget", tree |-> t]
    ELSE IF targetNodeId \notin IdsOf(t.nodes)
    THEN [success |-> FALSE, error |-> "NotFound", tree |-> t]
    ELSE IF targetNodeId = t.current_node_id
    THEN [success |-> TRUE, error |-> "", tree |-> t]
    ELSE [success |-> TRUE, error |-> "",
          tree |-> [t EXCEPT !.current_node_id = targetNodeId, !.updated_at = @ + 1]]

\* editNodeContent(tree, nodeId, newText, summarizer) when the summarizer returned summary
EditNodeContent(t, nodeId, newText, summary) ==
    IF nodeId \notin IdsOf(t.nodes)
    THEN [success |-> FALSE, error |-> "NotFound", tree |-> t]
    ELSE [success |-> TRUE, error |-> "",
          tree |-> [t EXCEPT !.updated_at = @ + 1,
                             !.nodes = [i \in 1..Len(t.nodes) |->
                                 IF t.nodes[i].node_id = nodeId
                                 THEN [t.nodes[i] EXCEPT !.assistant_response = newText,
                                                         !.parsed_content = [compressedContent |-> summary]]
                                 ELSE t.nodes[i]]]]

\* s without its i-th element
RemoveAt(s, i) == SubSeq(s, 1, i - 1) \o SubSeq(s, i + 1, Len(s))

\* getCharacterDialogue is served: the response carries the tree as it is now, or the call fails
GetCharacterDialogue(i) ==
    /\ ~hung
    /\ i \in 1..Len(pendingLoads)
    /\ pendingLoads[i].status = "sent"
    /\ \E ok \in BOOLEAN :
         pendingLoads' = [pendingLoads EXCEPT ![i] =
             IF ok THEN [@ EXCEPT !.status = "ok", !.tree = tree]
                   ELSE [@ EXCEPT !.status = "fail"]]
    /\ UNCHANGED <<backendVars, walkVars>>
    /\ UNCHANGED <<isOpen, dataLoaded, nodes, edges, selectedNode, isEditModalOpen, editContent,
                   isSaving, isJumpingToNode, isJumping, showRootTooltip, pendingJumps,
                   pendingEdits, closeTimers, hung, loadsLeft, jumpsLeft,
                   editsLeft, dialogueEditCalls>>

\* switchDialogueBranch({characterId, nodeId}) is served
SwitchDialogueBranch(i) ==
    /\ ~hung
    /\ i \in 1..Len(pendingJumps)
    /\ pendingJumps[i].status = "sent"
    /\ LET r == SwitchBranch(tree, pendingJumps[i].nodeId)
       IN  /\ tree' = r.tree
           /\ okResponses' = IF r.success THEN okResponses + 1 ELSE okResponses
           /\ pendingJumps' = [pendingJumps EXCEPT ![i] =
                  [@ EXCEPT !.status = IF r.success THEN "ok" ELSE "fail", !.error = r.error]]
    /\ UNCHANGED walkVars
    /\ UNCHANGED <<isOpen, dataLoaded, nodes, edges, selectedNode, isEditModalOpen, editContent,
                   isSaving, isJumpingToNode, isJumping, showRootTooltip, pendingLoads,
                   pendingEdits, closeTimers, hung, loadsLeft, jumpsLeft,
                   editsLeft, dialogueEditCalls>>

\* editDialaogueNodeContent({characterId, nodeId, assistantResponse, ...}) is served:
\* the summarizer returns Summary, or it fails and the whole edit fails
EditDialogueNodeContent(i) ==
    /\ ~hung
    /\ i \in 1..Len(pendingEdits)
    /\ pendingEdits[i].status = "sent"
    /\ LET r == EditNodeContent(tree, pendingEdits[i].nodeId, pendingEdits[i].assistantResponse, Summary)
       IN  \/ /\ tree' = r.tree
              /\ okResponses' = IF r.success THEN okResponses + 1 ELSE okResponses
              /\ pendingEdits' = [pendingEdits EXCEPT ![i] =
                     [@ EXCEPT !.status = IF r.success THEN "ok" ELSE "fail",
                               !.error = r.error,
                               !.summary = IF r.success THEN Summary ELSE NoText]]
           \/ /\ r.success
              /\ pendingEdits' = [pendingEdits EXCEPT ![i] =
                     [@ EXCEPT !.status = "fail", !.error = "UpstreamFailure"]]
              /\ UNCHANGED <<tree, okResponses>>
    /\ UNCHANGED walkVars
    /\ UNCHANGED <<isOpen, dataLoaded, nodes, edges, selectedNode, isEditModalOpen, editContent,
                   isSaving, isJumpingToNode, isJumping, showRootTooltip, pendingLoads,
                   pendingJumps, closeTimers, hung, loadsLeft, jumpsLeft,
                   editsLeft, dialogueEditCalls>>

\* the conversation is reset: the tree is replaced wholesale by a new one
ResetConversation ==
    /\ ~hung
    /\ tree # FreshTree
    /\ tree' = FreshTree
    /\ UNCHANGED <<okResponses, modalVars, walkVars>>


-----------------------------------------------------------------------------
(* DialogueTreeModal and DialogueNodeComponent                              *)

NoNode == [id |-> "", label |-> <<>>, fullContent |-> NoText, assistantResponse |-> NoText,
           parsedContent |-> [compressedContent |-> NoText], isCurrentPath |-> FALSE,
           onJumpClick |-> [isJumpingToNode |-> FALSE], col |-> 0, row |-> 0]

\* the texts the user types into the edit dialog
EditTexts == {Bar}

DisplayedIds(ns) == {ns[i].id : i \in 1..Len(ns)}

\* nodesRef.current.find(node => node.id == nodeId), as an index (0: none)
RECURSIVE FindDisplayedFrom(_, _, _)
FindDisplayedFrom(ns, id, i) ==
    IF i > Len(ns) THEN 0
    ELSE IF ns[i].id = id THEN i
    ELSE FindDisplayedFrom(ns, id, i + 1)

FindDisplayed(ns, id) == FindDisplayedFrom(ns, id, 1)

\* The render branches: ReactFlow, and with it one DialogueNodeComponent per displayed node,
\* is mounted only when the modal is open, the data is loaded and there are nodes.
MountedIds(open, loaded, ns) == IF open /\ loaded /\ Len(ns) > 0 THEN DisplayedIds(ns) ELSE {}

\* a component that unmounts loses its state; the jump it awaits goes on without it
AliveAfter(jumps, ids) ==
    [k \in 1..Len(jumps) |-> [jumps[k] EXCEPT !.compAlive = @ /\ jumps[k].awaiter \in ids]]

\* the load effect, isOpen && characterId: fetchDialogueData(characterId) up to its await.
\* The call belongs to the render that ran the effect, and so does the handleJumpToNode
\* its nodes will call.
\* Calls are told apart by the number of loads the session had left when they were made:
\* a later call has the smaller number.
FetchDialogueData ==
    /\ loadsLeft > 0
    /\ loadsLeft' = loadsLeft - 1
    /\ pendingLoads' = Append(pendingLoads,
           [isJumpingToNode |-> isJumpingToNode, status |-> "sent", tree |-> NoTree,
            request |-> loadsLeft])

\* the parent opens the modal (isOpen becomes true) and the load effect runs
Open ==
    /\ ~hung
    /\ ~isOpen
    /\ isOpen' = TRUE
    /\ FetchDialogueData
    /\ UNCHANGED <<backendVars, walkVars>>
    /\ UNCHANGED <<dataLoaded, nodes, edges, selectedNode, isEditModalOpen, editContent,
                   isSaving, isJumpingToNode, isJumping, showRootTooltip, pendingJumps,
                   pendingEdits, closeTimers, hung, jumpsLeft,
                   editsLeft, dialogueEditCalls>>

\* onClose(): the parent sets isOpen to false; the modal renders null, the node components
\* unmount, and the load effect's else branch runs setDataLoaded(false)
OnClose ==
    /\ isOpen' = FALSE
    /\ dataLoaded' = FALSE
    /\ isJumping' = {}
    /\ showRootTooltip' = FALSE
    /\ pendingJumps' = AliveAfter(pendingJumps, {})

\* the user closes the modal (close button, click outside)
Close ==
    /\ ~hung
    /\ isOpen
    /\ OnClose
    /\ UNCHANGED <<backendVars, walkVars>>
    /\ UNCHANGED <<nodes, edges, selectedNode, isEditModalOpen, editContent,
                   isSaving, isJumpingToNode, pendingLoads,
                   pendingEdits, closeTimers, hung, loadsLeft, jumpsLeft,
                   editsLeft, dialogueEditCalls>>

\* the parent passes another characterId: the stored tree the modal reads is that character's,
\* and the load effect runs again (fetchDialogueData when open, setDataLoaded(false) otherwise)
CharacterTrees == InitTrees \cup {NewDialogueTree(NoArguments)}

ChangeCharacter ==
    /\ ~hung
    /\ tree' \in CharacterTrees \ {tree}
    /\ IF isOpen
       THEN FetchDialogueData /\ UNCHANGED dataLoaded
       ELSE dataLoaded' = FALSE /\ UNCHANGED <<loadsLeft, pendingLoads>>
    /\ UNCHANGED <<okResponses, walkVars>>
    /\ UNCHANGED <<isOpen, nodes, edges, selectedNode, isEditModalOpen, editContent,
                   isSaving, isJumpingToNode, isJumping, showRootTooltip, pendingJumps,
                   pendingEdits, closeTimers, hung, jumpsLeft,
                   editsLeft, dialogueEditCalls>>

\* setTimeout(() => { onClose(); }, 300) fires
CloseTimerFires ==
    /\ ~hung
    /\ closeTimers > 0
    /\ closeTimers' = closeTimers - 1
    /\ IF isOpen THEN OnClose
       ELSE UNCHANGED <<isOpen, dataLoaded, isJumping, showRootTooltip, pendingJumps>>
    /\ UNCHANGED <<backendVars, walkVars>>
    /\ UNCHANGED <<nodes, edges, selectedNode, isEditModalOpen, editContent,
                   isSaving, isJumpingToNode, pendingLoads,
                   pendingEdits, hung, loadsLeft, jumpsLeft,
                   editsLeft, dialogueEditCalls>>

\* fetchDialogueData after its await: the response is checked, the path walked, the graph laid out
FetchDialogueDataReturns(i) ==
    /\ ~hung
    /\ i \in 1..Len(pendingLoads)
    /\ pendingLoads[i].status # "sent"
    /\ LET load == pendingLoads[i]
           allNodes == load.tree.nodes
           walk == ComputeCurrentPath(allNodes, load.tree.current_node_id)
           thrown == load.status = "fail"
           empty == ~thrown /\ Len(allNodes) = 0
           stuck == ~thrown /\ ~empty /\ walk.diverges
           newNodes == IF thrown \/ empty \/ stuck THEN nodes
                       ELSE LayoutNodes(allNodes, walk.path, load.isJumpingToNode)
           newEdges == IF thrown \/ empty \/ stuck THEN edges
                       ELSE LayoutEdges(allNodes, walk.path)
           mounted == MountedIds(isOpen, TRUE, newNodes)
       IN  IF stuck
           THEN /\ hung' = TRUE
                /\ UNCHANGED <<dataLoaded, nodes, edges, pendingLoads, isJumping,
                               showRootTooltip, pendingJumps>>
           ELSE /\ nodes' = newNodes
                /\ edges' = newEdges
                /\ dataLoaded' = TRUE
                /\ pendingLoads' = RemoveAt(pendingLoads, i)
                /\ isJumping' = isJumping \cap mounted
                /\ showRootTooltip' = (showRootTooltip /\ Root \in mounted)
                /\ pendingJumps' = AliveAfter(pendingJumps, mounted)
                /\ UNCHANGED hung
    /\ UNCHANGED <<backendVars, walkVars>>
    /\ UNCHANGED <<isOpen, selectedNode, isEditModalOpen, editContent,
                   isSaving, isJumpingToNode,
                   pendingEdits, closeTimers, loadsLeft, jumpsLeft,
                   editsLeft, dialogueEditCalls>>


\* handleJumpToNode forwarding the id of the last displayed node instead of its argument
HandleJumpToNodeWrongTarget(nodeId, capturedIsJumpingToNode, awaiter) ==
    IF capturedIsJumpingToNode
    THEN UNCHANGED <<isJumpingToNode, pendingJumps, jumpsLeft>>
    ELSE /\ jumpsLeft > 0
         /\ jumpsLeft' = jumpsLeft - 1
         /\ isJumpingToNode' = TRUE
         /\ pendingJumps' = Append(pendingJumps,
                [awaiter |-> awaiter, nodeId |-> nodes[Len(nodes)].id, compAlive |-> TRUE,
                 status |-> "sent", error |-> ""])

\* handleJumpToNode forwarding the id of the first displayed node after root instead of its argument
HandleJumpToNodeFirstTarget(nodeId, capturedIsJumpingToNode, awaiter) ==
    IF capturedIsJumpingToNode
    THEN UNCHANGED <<isJumpingToNode, pendingJumps, jumpsLeft>>
    ELSE /\ jumpsLeft > 0
         /\ jumpsLeft' = jumpsLeft - 1
         /\ isJumpingToNode' = TRUE
         /\ pendingJumps' = Append(pendingJumps,
                [awaiter |-> awaiter, nodeId |-> nodes[2].id, compAlive |-> TRUE,
                 status |-> "sent", error |-> ""])

\* handleJumpToNode(nodeId) up to its await, called through a node's onJumpClick closure:
\* if (!characterId || isJumpingToNode) return; setIsJumpingToNode(true); switchDialogueBranch(...)
\* isJumpingToNode is the value the closure's render had; awaiter is the component awaiting the call.
HandleJumpToNode(nodeId, capturedIsJumpingToNode, awaiter) ==
    IF capturedIsJumpingToNode
    THEN UNCHANGED <<isJumpingToNode, pendingJumps, jumpsLeft>>
    ELSE /\ jumpsLeft > 0
         /\ jumpsLeft' = jumpsLeft - 1
         /\ isJumpingToNode' = TRUE
         /\ pendingJumps' = Append(pendingJumps,
                [awaiter |-> awaiter, nodeId |-> nodeId, compAlive |-> TRUE,
                 status |-> "sent", error |-> ""])

\* handleJumpClick without its id === "root" check
HandleJumpClickWithoutRootCheck(id) ==
    /\ ~hung
    /\ ~isEditModalOpen
    /\ id \in MountedIds(isOpen, dataLoaded, nodes)
    /\ \/ /\ id \in isJumping
          /\ UNCHANGED <<isJumping, isJumpingToNode, pendingJumps, jumpsLeft>>
       \/ /\ id \notin isJumping
          /\ HandleJumpToNode(id, nodes[FindDisplayed(nodes, id)].onJumpClick.isJumpingToNode, id)
          /\ isJumping' = IF Len(pendingJumps') > Len(pendingJumps) THEN isJumping \cup {id}
                          ELSE isJumping
    /\ UNCHANGED showRootTooltip
    /\ UNCHANGED <<backendVars, walkVars>>
    /\ UNCHANGED <<isOpen, dataLoaded, nodes, edges, selectedNode, isEditModalOpen, editContent,
                   isSaving, pendingLoads, pendingEdits, closeTimers, hung, loadsLeft,
                   editsLeft, dialogueEditCalls>>

\* DialogueNodeComponent.handleJumpClick of the mounted component of node id
HandleJumpClick(id) ==
    /\ ~hung
    /\ ~isEditModalOpen
    /\ id \in MountedIds(isOpen, dataLoaded, nodes)
    /\ \/ /\ id = Root
          /\ showRootTooltip' = TRUE
          /\ UNCHANGED <<isJumping, isJumpingToNode, pendingJumps, jumpsLeft>>
       \/ /\ id # Root
          /\ id \in isJumping
          /\ UNCHANGED <<isJumping, isJumpingToNode, pendingJumps, jumpsLeft,
                         showRootTooltip>>
       \/ /\ id # Root
          /\ id \notin isJumping
          /\ HandleJumpToNode(id, nodes[FindDisplayed(nodes, id)].onJumpClick.isJumpingToNode, id)
          /\ isJumping' = IF Len(pendingJumps') > Len(pendingJumps) THEN isJumping \cup {id}
                          ELSE isJumping
          /\ UNCHANGED showRootTooltip
    /\ UNCHANGED <<backendVars, walkVars>>
    /\ UNCHANGED <<isOpen, dataLoaded, nodes, edges, selectedNode, isEditModalOpen, editContent,
                   isSaving, pendingLoads, pendingEdits, closeTimers, hung, loadsLeft,
                   editsLeft, dialogueEditCalls>>

\* setTimeout(() => { setShowRootTooltip(false); }, 3000) fires
RootTooltipTimeout ==
    /\ ~hung
    /\ showRootTooltip
    /\ showRootTooltip' = FALSE
    /\ UNCHANGED <<backendVars, walkVars>>
    /\ UNCHANGED <<isOpen, dataLoaded, nodes, edges, selectedNode, isEditModalOpen, editContent,
                   isSaving, isJumpingToNode, isJumping, pendingLoads, pendingJumps,
                   pendingEdits, closeTimers, hung, loadsLeft, jumpsLeft,
                   editsLeft, dialogueEditCalls>>

\* handleJumpToNode without the throw on !response.success: it notifies and closes on every response
HandleJumpToNodeReturnsIgnoringFailure(i) ==
    /\ ~hung
    /\ i \in 1..Len(pendingJumps)
    /\ pendingJumps[i].status # "sent"
    /\ LET jump == pendingJumps[i]
       IN  /\ dialogueEditCalls' = dialogueEditCalls + 1
           /\ closeTimers' = closeTimers + 1
           /\ isJumpingToNode' = FALSE
           /\ isJumping' = IF jump.compAlive THEN isJumping \ {jump.awaiter} ELSE isJumping
           /\ pendingJumps' = RemoveAt(pendingJumps, i)
    /\ UNCHANGED <<backendVars, walkVars>>
    /\ UNCHANGED <<isOpen, dataLoaded, nodes, edges, selectedNode, isEditModalOpen, editContent,
                   isSaving, showRootTooltip, pendingLoads,
                   pendingEdits, hung, loadsLeft, jumpsLeft,
                   editsLeft>>

\* handleJumpToNode after its await, then handleJumpClick's finally.
\* On success onDialogueEdit is called and awaited; it may throw, which skips the close timer.
HandleJumpToNodeReturns(i) ==
    /\ ~hung
    /\ i \in 1..Len(pendingJumps)
    /\ pendingJumps[i].status # "sent"
    /\ LET jump == pendingJumps[i]
       IN  /\ IF jump.status = "ok"
              THEN /\ dialogueEditCalls' = dialogueEditCalls + 1
                   /\ \E thrown \in BOOLEAN :
                        closeTimers' = IF thrown THEN closeTimers ELSE closeTimers + 1
              ELSE UNCHANGED <<dialogueEditCalls, closeTimers>>
           /\ isJumpingToNode' = FALSE
           /\ isJumping' = IF jump.compAlive THEN isJumping \ {jump.awaiter} ELSE isJumping
           /\ pendingJumps' = RemoveAt(pendingJumps, i)
    /\ UNCHANGED <<backendVars, walkVars>>
    /\ UNCHANGED <<isOpen, dataLoaded, nodes, edges, selectedNode, isEditModalOpen, editContent,
                   isSaving, showRootTooltip, pendingLoads,
                   pendingEdits, hung, loadsLeft, jumpsLeft,
                   editsLeft>>

\* handleEditNode(nodeId): a click on a mounted node opens the edit dialog for it
HandleEditNode(id) ==
    /\ ~hung
    /\ ~isEditModalOpen
    /\ id \in MountedIds(isOpen, dataLoaded, nodes)
    /\ LET nodeToEdit == nodes[FindDisplayed(nodes, id)]
       IN  /\ selectedNode' = nodeToEdit
           /\ editContent' = nodeToEdit.assistantResponse
           /\ isEditModalOpen' = TRUE
    /\ UNCHANGED <<backendVars, walkVars>>
    /\ UNCHANGED <<isOpen, dataLoaded, nodes, edges,
                   isSaving, isJumpingToNode, isJumping, showRootTooltip, pendingLoads, pendingJumps,
                   pendingEdits, closeTimers, hung, loadsLeft, jumpsLeft,
                   editsLeft, dialogueEditCalls>>

\* the edit dialog is rendered when the modal is open, isEditModalOpen and selectedNode
EditDialogShown == isOpen /\ isEditModalOpen /\ selectedNode # NoNode

\* the textarea's onChange: setEditContent(e.target.value)
SetEditContent(text) ==
    /\ ~hung
    /\ EditDialogShown
    /\ editContent # text
    /\ editContent' = text
    /\ UNCHANGED <<backendVars, walkVars>>
    /\ UNCHANGED <<isOpen, dataLoaded, nodes, edges, selectedNode, isEditModalOpen,
                   isSaving, isJumpingToNode, isJumping, showRootTooltip, pendingLoads, pendingJumps,
                   pendingEdits, closeTimers, hung, loadsLeft, jumpsLeft,
                   editsLeft, dialogueEditCalls>>

\* the dialog's close button or a click outside it: setIsEditModalOpen(false)
CloseEditModal ==
    /\ ~hung
    /\ EditDialogShown
    /\ isEditModalOpen' = FALSE
    /\ UNCHANGED <<backendVars, walkVars>>
    /\ UNCHANGED <<isOpen, dataLoaded, nodes, edges, selectedNode, editContent,
                   isSaving, isJumpingToNode, isJumping, showRootTooltip, pendingLoads, pendingJumps,
                   pendingEdits, closeTimers, hung, loadsLeft, jumpsLeft,
                   editsLeft, dialogueEditCalls>>

\* saveEditContent with the save button rendered also while isSaving
SaveEditContentWhileSaving ==
    /\ ~hung
    /\ EditDialogShown
    /\ editsLeft > 0
    /\ editsLeft' = editsLeft - 1
    /\ isSaving' = TRUE
    /\ pendingEdits' = Append(pendingEdits,
           [nodeId |-> selectedNode.id, assistantResponse |-> editContent,
            status |-> "sent", error |-> "", summary |-> NoText])
    /\ UNCHANGED <<backendVars, walkVars>>
    /\ UNCHANGED <<isOpen, dataLoaded, nodes, edges, selectedNode, isEditModalOpen, editContent,
                   isJumpingToNode, isJumping, showRootTooltip, pendingLoads, pendingJumps,
                   closeTimers, hung, loadsLeft, jumpsLeft,
                   dialogueEditCalls>>

\* saveEditContent up to its await; the save button is rendered only while !isSaving
SaveEditContent ==
    /\ ~hung
    /\ EditDialogShown
    /\ ~isSaving
    /\ editsLeft > 0
    /\ editsLeft' = editsLeft - 1
    /\ isSaving' = TRUE
    /\ pendingEdits' = Append(pendingEdits,
           [nodeId |-> selectedNode.id, assistantResponse |-> editContent,
            status |-> "sent", error |-> "", summary |-> NoText])
    /\ UNCHANGED <<backendVars, walkVars>>
    /\ UNCHANGED <<isOpen, dataLoaded, nodes, edges, selectedNode, isEditModalOpen, editContent,
                   isJumpingToNode, isJumping, showRootTooltip, pendingLoads, pendingJumps,
                   closeTimers, hung, loadsLeft, jumpsLeft,
                   dialogueEditCalls>>

\* the setNodes update leaving parsedContent as it was
UpdatedNodesKeepingSummary(nds, selectedId, newContent, summary) ==
    [k \in 1..Len(nds) |->
        IF nds[k].id = selectedId
        THEN [nds[k] EXCEPT !.assistantResponse = newContent]
        ELSE nds[k]]

\* the setNodes update without the node.id === selectedNode.id test
UpdatedNodesEveryNode(nds, selectedId, newContent, summary) ==
    [k \in 1..Len(nds) |->
        [nds[k] EXCEPT !.assistantResponse = newContent,
                       !.parsedContent = [compressedContent |-> summary]]]

\* setNodes(nds => nds.map(node => node.id === selectedNode.id ? {...node, data: {...}} : node))
UpdatedNodes(nds, selectedId, newContent, summary) ==
    [k \in 1..Len(nds) |->
        IF nds[k].id = selectedId
        THEN [nds[k] EXCEPT !.label = nds[k].label,
                            !.assistantResponse = newContent,
                            !.parsedContent = [compressedContent |-> summary]]
        ELSE nds[k]]

\* saveEditContent without the throw on !response.success
SaveEditContentReturnsIgnoringFailure(i) ==
    /\ ~hung
    /\ i \in 1..Len(pendingEdits)
    /\ pendingEdits[i].status # "sent"
    /\ LET edit == pendingEdits[i]
       IN  /\ nodes' = UpdatedNodes(nodes, edit.nodeId, edit.assistantResponse, edit.summary)
           /\ isEditModalOpen' = FALSE
           /\ dialogueEditCalls' = dialogueEditCalls + 1
    /\ isSaving' = FALSE
    /\ pendingEdits' = RemoveAt(pendingEdits, i)
    /\ UNCHANGED <<backendVars, walkVars>>
    /\ UNCHANGED <<isOpen, dataLoaded, edges, selectedNode, editContent,
                   isJumpingToNode, isJumping, showRootTooltip, pendingLoads, pendingJumps,
                   closeTimers, hung, loadsLeft, jumpsLeft,
                   editsLeft>>

\* saveEditContent after its await
SaveEditContentReturns(i) ==
    /\ ~hung
    /\ i \in 1..Len(pendingEdits)
    /\ pendingEdits[i].status # "sent"
    /\ LET edit == pendingEdits[i]
       IN  IF edit.status = "ok"
           THEN /\ nodes' = UpdatedNodes(nodes, edit.nodeId, edit.assistantResponse, edit.summary)
                /\ isEditModalOpen' = FALSE
                /\ dialogueEditCalls' = dialogueEditCalls + 1
           ELSE UNCHANGED <<nodes, isEditModalOpen, dialogueEditCalls>>
    /\ isSaving' = FALSE
    /\ pendingEdits' = RemoveAt(pendingEdits, i)
    /\ UNCHANGED <<backendVars, walkVars>>
    /\ UNCHANGED <<isOpen, dataLoaded, edges, selectedNode, editContent,
                   isJumpingToNode, isJumping, showRootTooltip, pendingLoads, pendingJumps,
                   closeTimers, hung, loadsLeft, jumpsLeft,
                   editsLeft>>

-----------------------------------------------------------------------------
(* Specifications *)

\* the walk variables while the modal runs, the modal variables while the walk runs
WalkIdle ==
    /\ wNodes = <<>>
    /\ wCurrent = Root
    /\ tempNodeId = Root
    /\ currentPathNodeIds = <<>>
    /\ wpc = "idle"
    /\ wIterations = 0

\* the modal right after it is mounted closed: the useState initial values
ModalInit ==
    /\ okResponses = 0
    /\ isOpen = FALSE
    /\ dataLoaded = FALSE
    /\ nodes = <<>>
    /\ edges = <<>>
    /\ selectedNode = NoNode
    /\ isEditModalOpen = FALSE
    /\ editContent = NoText
    /\ isSaving = FALSE
    /\ isJumpingToNode = FALSE
    /\ isJumping = {}
    /\ showRootTooltip = FALSE
    /\ pendingLoads = <<>>
    /\ pendingJumps = <<>>
    /\ pendingEdits = <<>>
    /\ closeTimers = 0
    /\ hung = FALSE
    /\ dialogueEditCalls = 0

LoadSteps ==
    \/ Open
    \/ Close
    \/ \E i \in 1..Len(pendingLoads) : GetCharacterDialogue(i)
    \/ \E i \in 1..Len(pendingLoads) : FetchDialogueDataReturns(i)
    \/ ResetConversation

JumpSteps ==
    \/ \E id \in NodeIds : HandleJumpClick(id)
    \/ RootTooltipTimeout
    \/ \E i \in 1..Len(pendingJumps) : SwitchDialogueBranch(i)
    \/ \E i \in 1..Len(pendingJumps) : HandleJumpToNodeReturns(i)
    \/ CloseTimerFires

EditSteps ==
    \/ \E id \in NodeIds : HandleEditNode(id)
    \/ \E text \in EditTexts : SetEditContent(text)
    \/ CloseEditModal
    \/ SaveEditContent
    \/ \E i \in 1..Len(pendingEdits) : EditDialogueNodeContent(i)
    \/ \E i \in 1..Len(pendingEdits) : SaveEditContentReturns(i)

\* a session in which the user opens the modal once on the conversation
\* root -> A -> B, then jumps and edits; reopening and the other trees are
\* explored by JumpSpec and EditSpec
Init ==
    /\ tree = ScenarioTree
    /\ loadsLeft = 1
    /\ jumpsLeft = MaxSessionJumps
    /\ editsLeft = MaxSessionEdits
    /\ ModalInit
    /\ WalkIdle

Next == LoadSteps \/ JumpSteps \/ EditSteps

Spec == Init /\ [][Next]_vars

\* a session in which the user loads and jumps
JumpInit ==
    /\ tree \in InitTrees
    /\ loadsLeft = MaxLoads
    /\ jumpsLeft = MaxJumps
    /\ editsLeft = 0
    /\ ModalInit
    /\ WalkIdle

JumpNext == LoadSteps \/ JumpSteps

JumpSpec == JumpInit /\ [][JumpNext]_vars

\* a session in which the user loads and edits
EditInit ==
    /\ tree \in InitTrees
    /\ loadsLeft = MaxEditLoads
    /\ jumpsLeft = 0
    /\ editsLeft = MaxEdits
    /\ ModalInit
    /\ WalkIdle

EditNext == LoadSteps \/ EditSteps

EditSpec == EditInit /\ [][EditNext]_vars

\* a session in which the user opens and closes the modal while the conversation goes on
\* and the character shown changes
LoadInit ==
    /\ tree \in InitTrees
    /\ loadsLeft = MaxLoads
    /\ jumpsLeft = 0
    /\ editsLeft = 0
    /\ ModalInit
    /\ WalkIdle

LoadNext == LoadSteps \/ ChangeCharacter

LoadSpec == LoadInit /\ [][LoadNext]_vars

\* a session on a conversation whose tree was just constructed with the default parameters:
\* the user opens and closes the modal
CreateInit ==
    /\ tree = NewDialogueTree(NoArguments)
    /\ loadsLeft = MaxLoads + 1
    /\ jumpsLeft = 0
    /\ editsLeft = 0
    /\ ModalInit
    /\ WalkIdle

CreateNext ==
    \/ Open
    \/ Close
    \/ \E i \in 1..Len(pendingLoads) : GetCharacterDialogue(i)
    \/ \E i \in 1..Len(pendingLoads) : FetchDialogueDataReturns(i)

CreateSpec == CreateInit /\ [][CreateNext]_vars

\* a session in which the user opens the modal on the conversation root -> A -> B, whose
\* nodes have no summary yet, and saves several edits, one after another
SaveInit ==
    /\ tree = UnsummarizedTree
    /\ loadsLeft = MaxEditLoads
    /\ jumpsLeft = 0
    /\ editsLeft = MaxEdits + 1
    /\ ModalInit
    /\ WalkIdle

SaveSpec == SaveInit /\ [][EditNext]_vars

\* the current-path walk alone, on every small node list
WalkSpecInit ==
    /\ tree = NoTree
    /\ loadsLeft = 0
    /\ jumpsLeft = 0
    /\ editsLeft = 0
    /\ ModalInit
    /\ WalkInit

WalkNext ==
    \/ WalkIterate /\ UNCHANGED <<backendVars, modalVars>>
    \/ WalkExit /\ UNCHANGED <<backendVars, modalVars>>

WalkSpec == WalkSpecInit /\ [][WalkNext]_vars

\* Trees for the layout: node ids are unique within a tree (the root node, when present, is
\* the synthetic origin), in any order; a parent may be any id, also one that no node has;
\* current_node_id likewise.
LayoutNames == <<"A", "B", "C", "D", "E">>

LayoutIds == {Root} \cup {LayoutNames[k] : k \in 1..(MaxLayoutNodes - 1)}

LayoutNodeRecords ==
    {RootNode} \cup {DialogueNode(i, p, Foo, NoText) : i \in LayoutIds \ {Root},
                                                       p \in LayoutIds \cup {Missing}}

LayoutNodeLists ==
    UNION {{ns \in [1..n -> LayoutNodeRecords] :
               \A i, j \in 1..n : i # j => ns[i].node_id # ns[j].node_id}
           : n \in 0..MaxLayoutNodes}

LayoutTrees ==
    {DialogueTree(ns, cur, 0) : ns \in LayoutNodeLists, cur \in LayoutIds \cup {Missing}}

\* the modal has just been opened: its load is in flight
LoadInFlight ==
    /\ loadsLeft = 0
    /\ jumpsLeft = 0
    /\ editsLeft = 0
    /\ okResponses = 0
    /\ isOpen = TRUE
    /\ dataLoaded = FALSE
    /\ nodes = <<>>
    /\ edges = <<>>
    /\ selectedNode = NoNode
    /\ isEditModalOpen = FALSE
    /\ editContent = NoText
    /\ isSaving = FALSE
    /\ isJumpingToNode = FALSE
    /\ isJumping = {}
    /\ showRootTooltip = FALSE
    /\ pendingLoads = <<[isJumpingToNode |-> FALSE, status |-> "sent", tree |-> NoTree,
                         request |-> 1]>>
    /\ pendingJumps = <<>>
    /\ pendingEdits = <<>>
    /\ closeTimers = 0
    /\ hung = FALSE
    /\ dialogueEditCalls = 0
    /\ WalkIdle

LayoutInit == tree \in LayoutTrees /\ LoadInFlight

LayoutNext ==
    \/ \E i \in 1..Len(pendingLoads) : GetCharacterDialogue(i)
    \/ \E i \in 1..Len(pendingLoads) : FetchDialogueDataReturns(i)

LayoutSpec == LayoutInit /\ [][LayoutNext]_vars

\* the same loads under the event loop's scheduling: a request that was sent is answered, and
\* the continuation of an answered await is run
LayoutFairSpec ==
    /\ LayoutSpec
    /\ WF_vars(\E i \in 1..Len(pendingLoads) : GetCharacterDialogue(i))
    /\ WF_vars(\E i \in 1..Len(pendingLoads) : FetchDialogueDataReturns(i))


\* Conversations without branches, for the grid: root and a chain of turns below it, with any
\* node of the chain as the current one.
ChainId(k) == IF k = 0 THEN Root ELSE ToString(k)

Chain(n) == [k \in 1..n |-> IF k = 1 THEN RootNode
                            ELSE DialogueNode(ChainId(k - 1), ChainId(k - 2), Foo, NoText)]

GridTrees == {DialogueTree(Chain(n), ChainId(c), 0) : n \in 1..MaxGridNodes, c \in 0..(MaxGridNodes - 1)}

GridInit == tree \in {t \in GridTrees : t.current_node_id \in IdsOf(t.nodes)} /\ LoadInFlight

GridSpec == GridInit /\ [][LayoutNext]_vars

\* Conversations without branches whose turns carry every kind of text: no response, a short
\* one, one of exactly MaxLabelChars characters, a longer one; with and without a summary.
TextOfLength(n) == [k \in 1..n |-> "x"]

LabelResponses == {NoText, Foo, TextOfLength(MaxLabelChars), TextOfLength(MaxLabelChars + 1)}

LabelSummaries == {NoText, Summary}

LabelChains(n) ==
    {[k \in 1..n |-> IF k = 1 THEN RootNode
                     ELSE DialogueNode(ChainId(k - 1), ChainId(k - 2), texts[k][1], texts[k][2])]
        : texts \in [2..n -> LabelResponses \X LabelSummaries]}

LabelTrees ==
    UNION {{DialogueTree(ns, ChainId(n - 1), 0) : ns \in LabelChains(n)} : n \in 1..MaxLabelNodes}

LabelInit == tree \in LabelTrees /\ LoadInFlight

LabelSpec == LabelInit /\ [][LayoutNext]_vars

-----------------------------------------------------------------------------
(* Properties *)

PathIds(path) == {path[k] : k \in 1..Len(path)}

\* C1: on every node list and every current_node_id the current-path walk ends after at most
\* |nodes| loop iterations, and the path it builds never contains "root".
C1_WalkEndsWithinNodeCount ==
    /\ wIterations <= Len(wNodes)
    /\ Root \notin PathIds(currentPathNodeIds)

\* C2: at most one switchDialogueBranch call is in flight at a time: a jump requested while
\* another one is pending, for the same node or another, is dropped.
C2_AtMostOneSwitchInFlight == Len(pendingJumps) <= 1

\* C3: while a jump to node T is in flight no second switchDialogueBranch call for T is made.
C3_NoSecondSwitchForSameTarget ==
    \A i, j \in 1..Len(pendingJumps) :
        i # j => pendingJumps[i].nodeId # pendingJumps[j].nodeId

\* C4: a jump click on "root" always raises the cannot-jump-to-root tooltip, never reaches
\* switchDialogueBranch, and changes nothing else: the tree, the requests in flight, the
\* displayed graph and the modal's flags stay as they were.
C4_RootJumpRejected ==
    [][/\ HandleJumpClick(Root) =>
            /\ showRootTooltip'
            /\ UNCHANGED <<tree, pendingJumps, pendingLoads, pendingEdits, nodes, edges,
                           isJumpingToNode, isJumping, isOpen, dataLoaded, closeTimers,
                           dialogueEditCalls, okResponses>>
       /\ \A k \in 1..Len(pendingJumps') : pendingJumps'[k].nodeId # Root]_vars

C4_Witness ==
    /\ showRootTooltip
    /\ \E k \in 1..Len(pendingJumps) : pendingJumps[k].status = "sent"

\* C5: a switch to an id that is no node of the tree fails with NotFound and leaves the tree
\* (current_node_id, nodes, updated_at) as it was; the modal's handling of a failed response
\* calls no onDialogueEdit, schedules no close and leaves the modal open state alone.
C5_NotFoundChangesNothing ==
    [][\A i \in 1..Len(pendingJumps) :
        /\ (SwitchDialogueBranch(i) /\ pendingJumps[i].nodeId \notin IdsOf(tree.nodes)) =>
              /\ tree' = tree
              /\ pendingJumps'[i].status = "fail"
              /\ pendingJumps'[i].error = "NotFound"
        /\ (HandleJumpToNodeReturns(i) /\ pendingJumps[i].status = "fail") =>
              /\ UNCHANGED <<tree, dialogueEditCalls, closeTimers, isOpen, dataLoaded, nodes, edges>>
              /\ ~isJumpingToNode']_vars

C5_Witness ==
    \E k \in 1..Len(pendingJumps) :
        /\ pendingJumps[k].status = "fail"
        /\ pendingJumps[k].error = "NotFound"
        /\ pendingJumps[k].nodeId \notin IdsOf(tree.nodes)
        /\ isOpen

\* C6: when the switch requested by a jump click on node T succeeds, T is an existing non-root
\* node, the tree's current_node_id is T, and the current path of the tree starts with T.
C6_SuccessfulSwitchSetsCurrent ==
    [][\A i \in 1..Len(pendingJumps) :
        (/\ Len(pendingJumps') = Len(pendingJumps)
         /\ pendingJumps[i].status = "sent"
         /\ pendingJumps'[i].status = "ok") =>
            LET target == pendingJumps[i].awaiter
                walk == ComputeCurrentPath(tree'.nodes, tree'.current_node_id)
            IN  /\ target \in IdsOf(tree'.nodes) \ {Root}
                /\ tree'.current_node_id = target
                /\ ~walk.diverges
                /\ Len(walk.path) > 0
                /\ walk.path[1] = target]_vars

C6_Witness ==
    \E k \in 1..Len(pendingJumps) :
        /\ pendingJumps[k].status = "ok"
        /\ tree.current_node_id = pendingJumps[k].awaiter
        /\ tree.updated_at > 0

\* C7 as stated: switchBranch(tree, current_node_id) succeeds and leaves the tree as it is.
C7_SwitchToCurrentSucceeds ==
    LET r == SwitchBranch(tree, tree.current_node_id)
    IN  r.success /\ r.tree = tree

\* C7 amended: for current_node_id an existing node other than "root", switchBranch(tree,
\* current_node_id) succeeds and leaves the tree as it is, applying it twice gives what applying
\* it once gives, and every switch request the modal sends for the current node is answered
\* with success and no change of the tree.
C7_SwitchToCurrentNonRootIsNoOp ==
    [][/\ (tree.current_node_id \in IdsOf(tree.nodes) \ {Root}) =>
            LET once == SwitchBranch(tree, tree.current_node_id)
                twice == SwitchBranch(once.tree, tree.current_node_id)
            IN  once.success /\ once.tree = tree /\ twice.success /\ twice.tree = once.tree
       /\ \A i \in 1..Len(pendingJumps) :
            (SwitchDialogueBranch(i) /\ pendingJumps[i].nodeId = tree.current_node_id) =>
                /\ pendingJumps'[i].status = "ok"
                /\ tree' = tree]_vars

C7_Witness ==
    \E k \in 1..Len(pendingJumps) :
        /\ pendingJumps[k].status = "ok"
        /\ pendingJumps[k].nodeId = tree.current_node_id
        /\ tree.updated_at = 0
    
OkPending(reqs) == Cardinality({k \in 1..Len(reqs) : reqs[k].status = "ok"})

\* C8: onDialogueEdit has been called exactly once for every success response of a switch or
\* an edit that the modal has handled, and never for a failure response.
C8_NotifiedIffSucceeded ==
    dialogueEditCalls + OkPending(pendingJumps) + OkPending(pendingEdits) = okResponses

C8_Witness ==
    /\ dialogueEditCalls = 2
    /\ jumpsLeft = 0
    /\ editsLeft = 0
    /\ okResponses = 2

\* C9: a successful edit of node A with new text T and summary S leaves the tree's node A with
\* assistant_response = T and compressedContent = S, and the displayed node A with
\* assistantResponse = T and parsedContent.compressedContent = S.
C9_EditStoresTextAndSummary ==
    [][\A i \in 1..Len(pendingEdits) :
        /\ (EditDialogueNodeContent(i) /\ pendingEdits'[i].status = "ok") =>
              \A k \in 1..Len(tree'.nodes) :
                  tree'.nodes[k].node_id = pendingEdits[i].nodeId =>
                      /\ tree'.nodes[k].assistant_response = pendingEdits[i].assistantResponse
                      /\ tree'.nodes[k].parsed_content.compressedContent = pendingEdits'[i].summary
        /\ (SaveEditContentReturns(i) /\ pendingEdits[i].status = "ok") =>
              \A k \in 1..Len(nodes') :
                  nodes'[k].id = pendingEdits[i].nodeId =>
                      /\ nodes'[k].assistantResponse = pendingEdits[i].assistantResponse
                      /\ nodes'[k].parsedContent.compressedContent = pendingEdits[i].summary]_vars

C9_Witness ==
    /\ \E k \in 1..Len(nodes) :
          /\ nodes[k].id = "A"
          /\ nodes[k].assistantResponse = Bar
          /\ nodes[k].parsedContent.compressedContent = Summary
    /\ \E k \in 1..Len(tree.nodes) :
          /\ tree.nodes[k].node_id = "A"
          /\ tree.nodes[k].assistant_response = Bar
          /\ tree.nodes[k].parsed_content.compressedContent = Summary

\* C10: an edit of node A changes no node_id and no parent_node_id, changes no field of a node
\* other than A, and keeps the number and order of the nodes and all edges, in the tree and in
\* the displayed graph.
C10_EditFrame ==
    [][\A i \in 1..Len(pendingEdits) :
        /\ EditDialogueNodeContent(i) =>
              /\ Len(tree'.nodes) = Len(tree.nodes)
              /\ tree'.current_node_id = tree.current_node_id
              /\ \A k \in 1..Len(tree.nodes) :
                    /\ tree'.nodes[k].node_id = tree.nodes[k].node_id
                    /\ tree'.nodes[k].parent_node_id = tree.nodes[k].parent_node_id
                    /\ tree.nodes[k].node_id # pendingEdits[i].nodeId => tree'.nodes[k] = tree.nodes[k]
        /\ SaveEditContentReturns(i) =>
              /\ Len(nodes') = Len(nodes)
              /\ edges' = edges
              /\ \A k \in 1..Len(nodes) :
                    /\ nodes'[k].id = nodes[k].id
                    /\ nodes[k].id # pendingEdits[i].nodeId => nodes'[k] = nodes[k]]_vars

C10_Witness ==
    /\ Len(nodes) = 3
    /\ Len(edges) = 2
    /\ editsLeft < MaxEdits
    /\ \E k \in 1..Len(nodes) : nodes[k].assistantResponse = Bar
    /\ \E k \in 1..Len(nodes) : nodes[k].id # Root /\ nodes[k].assistantResponse = Foo

\* C11: an edit whose request fails (NotFound, a summarizer failure) changes nothing: the
\* answer leaves the stored tree as it was, and the modal's handling of the failed response
\* leaves every displayed node and edge as it was.
C11_FailedEditChangesNothing ==
    [][\A i \in 1..Len(pendingEdits) :
        /\ (EditDialogueNodeContent(i) /\ pendingEdits'[i].status = "fail") => tree' = tree
        /\ (SaveEditContentReturns(i) /\ pendingEdits[i].status = "fail") =>
              UNCHANGED <<tree, nodes, edges>>]_vars

C11_Witness ==
    /\ editsLeft < MaxEdits
    /\ pendingEdits = <<>>
    /\ okResponses = 0
    /\ ~isSaving
    /\ editContent = Bar
    /\ \A k \in 1..Len(nodes) : nodes[k].assistantResponse # Bar
    /\ \A k \in 1..Len(tree.nodes) : tree.nodes[k].assistant_response # Bar

\* C12: every step other than the replacement of the conversation keeps the number and order
\* of the tree's nodes and every node's node_id and parent_node_id; current_node_id changes
\* only in the step that answers a switch request with success, and then to the node whose
\* jump was requested; the answer to an edit request never changes current_node_id.
C12_ShapeAndCurrentNodeFrame ==
    [][\/ ResetConversation
       \/ /\ Len(tree'.nodes) = Len(tree.nodes)
          /\ \A k \in 1..Len(tree.nodes) :
                /\ tree'.nodes[k].node_id = tree.nodes[k].node_id
                /\ tree'.nodes[k].parent_node_id = tree.nodes[k].parent_node_id
          /\ (tree'.current_node_id # tree.current_node_id) =>
                \E i \in 1..Len(pendingJumps) :
                    /\ SwitchDialogueBranch(i)
                    /\ pendingJumps'[i].status = "ok"
                    /\ tree'.current_node_id = pendingJumps[i].awaiter
          /\ \A i \in 1..Len(pendingEdits) :
                EditDialogueNodeContent(i) => tree'.current_node_id = tree.current_node_id]_vars

C12_Witness ==
    /\ tree.current_node_id = "A"
    /\ IdsOf(tree.nodes) = NodeIds
    /\ \E k \in 1..Len(tree.nodes) : tree.nodes[k].assistant_response = Bar
    /\ okResponses = 2
    /\ jumpsLeft < MaxSessionJumps
    /\ editsLeft < MaxSessionEdits

\* the load of LayoutSpec has returned with a graph built from the tree
LaidOut == dataLoaded /\ pendingLoads = <<>> /\ nodes # <<>>

\* computeCurrentPath(tree) \cup {current_node_id}
CurrentPathSet == PathIds(ComputeCurrentPath(tree.nodes, tree.current_node_id).path)
                      \cup {tree.current_node_id}

\* C13: an emitted edge is categorized current-path if and only if both its source id and its
\* target id are in computeCurrentPath(tree) \cup {current_node_id}.
C13_CurrentPathEdgeIffBothEnds ==
    LaidOut =>
        \A k \in 1..Len(edges) :
            LET both == edges[k].source \in CurrentPathSet /\ edges[k].target \in CurrentPathSet
            IN  /\ edges[k].isCurrentPathEdge <=> both
                /\ (edges[k].className = "current-path") <=> both

C13_Witness ==
    /\ LaidOut
    /\ \E k \in 1..Len(edges) : edges[k].className = "current-path"
    /\ \E k \in 1..Len(edges) :
          /\ edges[k].target \in CurrentPathSet
          /\ ~edges[k].isCurrentPathEdge

\* the node ids and parent ids of a node list, in order
Shape(ns) == [k \in 1..Len(ns) |-> <<ns[k].node_id, ns[k].parent_node_id>>]

\* the tree {root, A(parent=root), B(parent=A)} with current_node_id = B
IsScenario == /\ Shape(tree.nodes) = << <<Root, NoParent>>, <<"A", Root>>, <<"B", "A">> >>
              /\ tree.current_node_id = "B"

EdgeAt(source, target) == {k \in 1..Len(edges) : edges[k].source = source /\ edges[k].target = target}

\* C14 as stated: in the scenario the path is [B, A], the edges root->A and A->B are both
\* current-path and root->A is root-source as well; in general the edge from root to a node
\* of the current path is current-path as well as root-source.
C14_RootEdgeOnPathIsCurrentPath ==
    LaidOut =>
        /\ IsScenario =>
              /\ ComputeCurrentPath(tree.nodes, tree.current_node_id).path = <<"B", "A">>
              /\ \A k \in EdgeAt(Root, "A") \cup EdgeAt("A", "B") : edges[k].isCurrentPathEdge
              /\ \A k \in EdgeAt(Root, "A") : edges[k].className = "root-source"
        /\ \A k \in 1..Len(edges) :
              (edges[k].source = Root /\ edges[k].target \in CurrentPathSet) =>
                  edges[k].isCurrentPathEdge /\ edges[k].className = "root-source"

\* C14 amended: in the scenario the path is [B, A], there are exactly the edges root->A and
\* A->B, A->B is current-path, and root->A is root-source and not current-path; in general an
\* edge from root is root-source, is never current-path, and has the stroke width of a
\* current-path edge.
C14_RootEdgeIsRootSourceOnly ==
    LaidOut =>
        /\ IsScenario =>
              /\ ComputeCurrentPath(tree.nodes, tree.current_node_id).path = <<"B", "A">>
              /\ Len(edges) = 2
              /\ EdgeAt(Root, "A") # {} /\ EdgeAt("A", "B") # {}
              /\ \A k \in EdgeAt("A", "B") :
                    edges[k].isCurrentPathEdge /\ edges[k].className = "current-path"
        /\ \A k \in 1..Len(edges) :
              /\ edges[k].source = Root =>
                    /\ edges[k].className = "root-source"
                    /\ ~edges[k].isCurrentPathEdge
                    /\ edges[k].strokeWidth = 3
              /\ edges[k].className = "current-path" => edges[k].strokeWidth = 3

C14_Witness == LaidOut /\ IsScenario /\ Len(edges) = 2

ParentOf(ns, id) == ns[FindIndex(ns, id)].parent_node_id

\* the data model's invariant: unique ids, a root node, every parent and current_node_id
\* resolve, and the parent graph is acyclic (the nodes can be ranked below their parents)
WellFormed(t) ==
    LET ns == t.nodes
        ids == IdsOf(ns)
    IN  /\ \A i, j \in 1..Len(ns) : i # j => ns[i].node_id # ns[j].node_id
        /\ Root \in ids
        /\ t.current_node_id \in ids
        /\ \A k \in 1..Len(ns) :
              IF ns[k].node_id = Root THEN ns[k].parent_node_id = NoParent
              ELSE ns[k].parent_node_id \in ids
        /\ \E rank \in [ids -> 0..Len(ns)] :
              \A k \in 1..Len(ns) :
                  ns[k].node_id # Root => rank[ns[k].parent_node_id] < rank[ns[k].node_id]

\* C15: on a well-formed tree the current path is in child-to-parent order: it is empty when
\* current_node_id is "root"; otherwise its first element is current_node_id, every following
\* element is the parent of the one before it, and the parent of its last element is "root".
C15_PathIsChildToParent ==
    (LaidOut /\ WellFormed(tree)) =>
        LET path == ComputeCurrentPath(tree.nodes, tree.current_node_id).path
        IN  IF tree.current_node_id = Root THEN path = <<>>
            ELSE /\ Len(path) > 0
                 /\ path[1] = tree.current_node_id
                 /\ \A k \in 2..Len(path) : path[k] = ParentOf(tree.nodes, path[k - 1])
                 /\ ParentOf(tree.nodes, path[Len(path)]) = Root

C15_Witness ==
    /\ LaidOut
    /\ WellFormed(tree)
    /\ Len(ComputeCurrentPath(tree.nodes, tree.current_node_id).path) = 2
    /\ \E k \in 1..Len(nodes) : nodes[k].isCurrentPath /\ nodes[k].id # tree.current_node_id

\* C16: for n >= 1 nodes the grid has columns * rows >= n cells, every node's cell
\* (index mod columns, index div columns) lies inside the grid, and no two nodes share a cell.
C16_GridCellsFitAndDiffer ==
    LaidOut =>
        LET n == Len(nodes)
            columns == Columns(n)
            rows == Rows(n)
        IN  /\ columns >= 1 /\ rows >= 1
            /\ columns * rows >= n
            /\ \A k \in 1..n :
                  /\ nodes[k].col = (k - 1) % columns
                  /\ nodes[k].row = (k - 1) \div columns
                  /\ nodes[k].col \in 0..(columns - 1)
                  /\ nodes[k].row \in 0..(rows - 1)
            /\ \A j, k \in 1..n :
                  j # k => <<nodes[j].col, nodes[j].row>> # <<nodes[k].col, nodes[k].row>>

C16_Witness ==
    /\ LaidOut
    /\ Len(nodes) = MaxGridNodes
    /\ Columns(Len(nodes)) = 3
    /\ \E k \in 1..Len(nodes) : nodes[k].col = 2 /\ nodes[k].row = 3

\* the (source, target) pairs of the edges, in order
EdgePairs(es) == [k \in 1..Len(es) |-> <<es[k].source, es[k].target>>]

\* (parent, child) for every non-root node whose parent is a node of the tree, in node order
ResolvedParentPairs(ns) ==
    LET pairs == [k \in 1..Len(ns) |-> <<ns[k].parent_node_id, ns[k].node_id>>]
    IN  SelectSeq(pairs, LAMBDA pr : pr[2] # Root /\ pr[1] \in IdsOf(ns))

C18_NodeCategories ==
    LaidOut =>
        LET path == PathIds(ComputeCurrentPath(tree.nodes, tree.current_node_id).path)
        IN  \A k \in 1..Len(nodes) :
                LET category == NodeCategory(nodes[k])
                IN  /\ category \in {"root", "on-current-path", "other"}
                    /\ (category = "root") <=> (nodes[k].id = Root)
                    /\ (category = "on-current-path") <=> (nodes[k].id # Root /\ nodes[k].id \in path)
                    /\ (category = "other") <=> (nodes[k].id # Root /\ nodes[k].id \notin path)

C18_Witness ==
    /\ LaidOut
    /\ {NodeCategory(nodes[k]) : k \in 1..Len(nodes)} = {"root", "on-current-path"}
    /\ Len(nodes) = 3
    /\ tree.current_node_id # Missing

\* the displayed nodes of the direct children of root, in enumeration order
DisplayedRootChildren ==
    SelectSeq(nodes, LAMBDA v : v.id # Root /\ ParentOf(tree.nodes, v.id) = Root)

\* C19: with M direct children of root, the k-th of them in enumeration order (k = 0..M-1) is
\* labelled starting point N/M with N = M - k: the last one is labelled 1, and every such
\* label carries the total M.
C19_StartingPointLabels ==
    LaidOut =>
        LET children == DisplayedRootChildren
            M == Len(children)
        IN  \A k \in 0..(M - 1) :
                children[k + 1].label = <<"startingPoint", ToString(M - k), "/", ToString(M)>>

\* the response prefix used as a label: the response, cut after MaxLabelChars characters
ResponsePrefix(response) ==
    IF Len(response) > MaxLabelChars THEN SubSeq(response, 1, MaxLabelChars) \o Ellipsis
    ELSE response

\* C20: a node that is neither root nor a direct child of root is labelled with its summary
\* whenever it has one, whatever its response; without a summary, with the prefix of its
\* response; with neither, with the system message placeholder.
C20_SummaryLabelComesFirst ==
    LaidOut =>
        \A k \in 1..Len(nodes) :
            LET node == tree.nodes[k]
                summary == node.parsed_content.compressedContent
            IN  (node.node_id # Root /\ node.parent_node_id # Root) =>
                    nodes[k].label = IF summary # NoText THEN summary
                                     ELSE IF node.assistant_response # NoText
                                          THEN ResponsePrefix(node.assistant_response)
                                          ELSE <<"systemMessage">>

\* C21: a node that is neither root nor a direct child of root, with no summary and a
\* non-empty response, is labelled with the whole response when it has at most 30 characters,
\* and otherwise with exactly its first 30 characters followed by "...".
C21_ResponsePrefixLabel ==
    LaidOut =>
        \A k \in 1..Len(nodes) :
            LET node == tree.nodes[k]
                response == node.assistant_response
            IN  (/\ node.node_id # Root
                 /\ node.parent_node_id # Root
                 /\ node.parsed_content.compressedContent = NoText
                 /\ response # NoText) =>
                    IF Len(response) <= 30
                    THEN nodes[k].label = response
                    ELSE /\ Len(nodes[k].label) = 30 + 3
                         /\ \A c \in 1..30 : nodes[k].label[c] = response[c]
                         /\ \A c \in 31..33 : nodes[k].label[c] = "."

C21_Witness ==
    /\ LaidOut
    /\ \E k \in 1..Len(nodes) :
          /\ tree.nodes[k].parent_node_id \notin {Root, NoParent}
          /\ tree.nodes[k].parsed_content.compressedContent = NoText
          /\ Len(tree.nodes[k].assistant_response) = 31
          /\ Len(nodes[k].label) = 33

\* C22: a newly created DialogueTree contains exactly one node, the root node "root", and
\* its current_node_id is "root".
C22_NewTreeIsRootAlone ==
    /\ Len(tree.nodes) = 1
    /\ tree.nodes[1].node_id = Root
    /\ tree.current_node_id = Root

\* C23: while an edit request is outstanding no second editDialaogueNodeContent call starts,
\* whatever the user does in between (closing the edit dialog, opening it for a node again,
\* pressing save): at most one edit request is outstanding, and a request only starts when
\* none is.
C23_AtMostOneEditInFlight ==
    /\ Len(pendingEdits) <= 1
    /\ pendingEdits # <<>> => isSaving

\* an edit is outstanding, and the user has closed the dialog and opened it again for another node
C23_Witness ==
    /\ pendingEdits # <<>>
    /\ EditDialogShown
    /\ selectedNode.id # pendingEdits[1].nodeId
    /\ editsLeft > 0

\* C24: every load started while the modal is open eventually ends with dataLoaded = true,
\* whether the fetch succeeded, returned success = false, returned a malformed tree, or the
\* layout threw.
C24_LoadEndsLoaded ==
    (isOpen /\ pendingLoads # <<>>) ~> (pendingLoads = <<>> /\ dataLoaded)

\* C25: every id in the computed current path is the node_id of a node of the tree: the walk
\* never adds an id that does not resolve (an absent current_node_id, a dangling parent).
C25_PathIdsResolve ==
    PathIds(currentPathNodeIds) \subseteq IdsOf(wNodes)

\* the calls of fetchDialogueData made after the call numbered request
LaterRequests(request) == (loadsLeft + 1)..(request - 1)

PendingRequests == {pendingLoads[k].request : k \in 1..Len(pendingLoads)}

\* C26: when two loads overlap, a response that arrives late for an earlier request never
\* overwrites the graph of a later request (the continuation of a load changes the displayed
\* nodes and edges only when no load requested after it has completed), and no load sets
\* dataLoaded = true while the modal is closed.
C26_LateResponseNeverOverwrites ==
    /\ [](~isOpen => ~dataLoaded)
    /\ [][\A i \in 1..Len(pendingLoads) :
            (/\ pendingLoads' = RemoveAt(pendingLoads, i)
             /\ (nodes' # nodes \/ edges' # edges))
                => LaterRequests(pendingLoads[i].request) \subseteq PendingRequests]_vars

\* the ids of the nodes a completed load leaves displayed, for the response it got
LoadedIds(load) ==
    IF load.status = "ok"
    THEN [k \in 1..Len(load.tree.nodes) |-> load.tree.nodes[k].node_id]
    ELSE <<>>

\* C27: after a load completes the displayed graph reflects the tree that was loaded; when the
\* loaded tree has zero nodes, or the load failed, the displayed node and edge lists are empty
\* and do not retain the nodes and edges of a previously loaded tree.
C27_GraphReflectsLoadedTree ==
    [][\A i \in 1..Len(pendingLoads) :
            pendingLoads' = RemoveAt(pendingLoads, i) =>
                /\ [k \in 1..Len(nodes') |-> nodes'[k].id] = LoadedIds(pendingLoads[i])
                /\ LoadedIds(pendingLoads[i]) = <<>> => edges' = <<>>]_vars

\* C28: in every reachable state each displayed node's fullContent equals its assistantResponse,
\* also after edits.
C28_FullContentIsResponse ==
    \A k \in 1..Len(nodes) : nodes[k].fullContent = nodes[k].assistantResponse

\* C29: after a successful edit of a node that is neither root nor a direct child of root, with
\* returned summary S, the node's displayed label equals S without a reload.
C29_EditedLabelIsSummary ==
    [][\A i \in 1..Len(pendingEdits) :
            (/\ pendingEdits' = RemoveAt(pendingEdits, i)
             /\ pendingEdits[i].status = "ok"
             /\ pendingEdits[i].summary # NoText
             /\ pendingEdits[i].nodeId # Root
             /\ pendingEdits[i].nodeId \in IdsOf(tree.nodes)
             /\ ParentOf(tree.nodes, pendingEdits[i].nodeId) # Root)
                => \A k \in 1..Len(nodes') :
                      nodes'[k].id = pendingEdits[i].nodeId => nodes'[k].label = pendingEdits[i].summary]_vars

\* C30: every jump and every edit that completes clears its in-flight flag: once no request is
\* outstanding none of isJumping, isJumpingToNode and isSaving is set, and a later jump is
\* accepted again (no displayed node's onJumpClick returns at its isJumpingToNode test).
C30_FlagsClearAndJumpAccepted ==
    /\ pendingJumps = <<>> => (~isJumpingToNode /\ isJumping = {})
    /\ pendingEdits = <<>> => ~isSaving
    /\ (pendingJumps = <<>> /\ pendingLoads = <<>>) =>
           \A k \in 1..Len(nodes) :
               nodes[k].id \in MountedIds(isOpen, dataLoaded, nodes)
                   => ~nodes[k].onJumpClick.isJumpingToNode

====
